---------------------------- MODULE Spec2Model ----------------------------
(***************************************************************************)
(* A model of the nuBoard scenario tab                                     *)
(* (nuplan/planning/nuboard/tabs/scenario_tab.py, class ScenarioTab).      *)
(*                                                                         *)
(* The tab owns three Select widgets (scenario type, log name, scenario    *)
(* name), a planner checkbox group, three visible layouts (scenario score, *)
(* time series, simulation tiles), the aggregated metric-score store, the  *)
(* aggregated time-series data and the rendered simulation figure data.    *)
(* Every handler runs to completion on the event loop; the only deferred   *)
(* work is the next-tick callback that swaps the simulation layout.        *)
(*                                                                         *)
(* Widget semantics (bokeh): assigning a Select's value calls the          *)
(* registered on_change handler synchronously, and only when the new value *)
(* differs from the old one.                                               *)
(***************************************************************************)
EXTENDS Integers, Sequences, FiniteSets, TLC

(***************************************************************************)
(* Bounds.                                                                 *)
(***************************************************************************)
\* Largest number of next-tick callbacks allowed to be queued at once.
MaxPending == 2

(***************************************************************************)
(* Generic helpers for Python lists, sets and dicts.                       *)
(***************************************************************************)
Range(q) == {q[i] : i \in DOMAIN q}

\* Lexicographic (code point) order of every string the data uses:
\* upper-case letters sort before lower-case ones.
NameOrder ==
    << "", "L1", "L2", "P1", "P2", "S1", "S2", "T1", "T2",
       "agg_a", "agg_b", "aggregator_type", "expA", "expB", "log_name", "m/s",
       "m1", "m2", "m3", "m4", "m5", "m6", "num_scenarios", "planner_name", "scenario", "scenario_type",
       "score", "speed", "weighted_average", "zeta" >>

Rank(x) == CHOOSE i \in DOMAIN NameOrder : NameOrder[i] = x

StrLess(a, b) == Rank(a) < Rank(b)

\* sorted(list(S)) for a set of strings.
SortedList(S) == SortSeq(
    LET RECURSIVE ToSeq(_)
        ToSeq(T) == IF T = {} THEN << >>
                    ELSE LET x == CHOOSE y \in T : TRUE
                         IN  << x >> \o ToSeq(T \ {x})
    IN ToSeq(S), StrLess)

RECURSIVE Flatten(_)
\* list(chain.from_iterable(q))
Flatten(q) == IF q = << >> THEN << >> ELSE Head(q) \o Flatten(Tail(q))

\* A Python dict that keeps insertion order: a sequence of [key, val] items.
DictKeys(d) == {d[i].key : i \in DOMAIN d}

DictGet(d, k) == (CHOOSE i \in DOMAIN d : d[i].key = k)

\* d[k].append(x) on a defaultdict(list) / on a dict with the key present.
DictAppend(d, k, x) ==
    IF k \in DictKeys(d)
    THEN [i \in DOMAIN d |-> IF d[i].key = k
                             THEN [key |-> k, val |-> Append(d[i].val, x)]
                             ELSE d[i]]
    ELSE Append(d, [key |-> k, val |-> << x >>])

\* if k not in d: d[k] = []
DictEnsure(d, k) ==
    IF k \in DictKeys(d) THEN d ELSE Append(d, [key |-> k, val |-> << >>])

DictVal(d, k) == d[DictGet(d, k)].val

(***************************************************************************)
(* Cells of a dataframe: None, NaN, or a number.  Numbers are fixed point  *)
(* with five decimal digits (12346 stands for 0.12346), so that rounding   *)
(* to four digits changes a value.                                         *)
(***************************************************************************)
None == [kind |-> "none", v |-> 0]
NaN == [kind |-> "nan", v |-> 0]
Num(x) == [kind |-> "num", v |-> x]

\* np.round(x, 4) on a fixed-point value: nearest multiple of 10, ties to even.
Round4(x) ==
    LET q == x \div 10
        r == x % 10
    IN  IF r < 5 THEN 10 * q
        ELSE IF r > 5 THEN 10 * (q + 1)
        ELSE IF q % 2 = 0 THEN 10 * q ELSE 10 * (q + 1)

\* np.round(cell, 4): NaN stays NaN.
RoundCell(c) == IF c.kind = "num" THEN Num(Round4(c.v)) ELSE c

\* np.round(np.asarray(q), 4)
RoundAll(q) == [i \in DOMAIN q |-> Round4(q[i])]


(***************************************************************************)
(* Experiment file data: what ExperimentFileData hands to the tab.  Two    *)
(* fixed data sets stand for "the set of loaded experiment files"; an      *)
(* experiment-file-set change picks one of them and a set of active        *)
(* experiment indices.  Experiment indices are 0-based as in the code;     *)
(* experiment i is element i + 1 of each per-experiment sequence.          *)
(***************************************************************************)
DataSets == {1, 2}

Key(i, t, l, n, p) ==
    [nuboard_file_index |-> i, scenario_type |-> t, log_name |-> l,
     scenario_name |-> n, planner_name |-> p]

\* One row of a metric aggregator dataframe: the identifying columns plus
\* the metric columns given by the function metrics.
AggRow(scenario, log, type, num, planner, metrics) ==
    ("scenario" :> scenario) @@ ("log_name" :> log) @@ ("scenario_type" :> type)
    @@ ("num_scenarios" :> num) @@ ("planner_name" :> planner)
    @@ ("aggregator_type" :> "weighted_average") @@ metrics

AggFrame(metric_names, rows) ==
    [columns |-> {"scenario", "log_name", "scenario_type", "num_scenarios",
                  "planner_name", "aggregator_type"} \cup metric_names,
     rows |-> rows]

\* One row of a metric statistics dataframe; series is None when the row
\* carries no time series (its first time-series cell is empty).
StatRow(n, t, l, p, series) ==
    [scenario_name |-> n, scenario_type |-> t, log_name |-> l,
     planner_name |-> p, series |-> series]

Series(unit, timestamps, values) ==
    [kind |-> "series", unit |-> unit, timestamps |-> timestamps, values |-> values]

NoSeries == [kind |-> "none", unit |-> "", timestamps |-> << >>, values |-> << >>]

ExperimentData1 ==
    [file_path_names |-> << "expA", "expB" >>,
     available_scenario_types |-> << "T1", "T2" >>,
     simulation_scenario_keys |->
        << Key(0, "T1", "L1", "S1", "P1"),
           Key(0, "T1", "L1", "S1", "P2"),
           Key(1, "T1", "L1", "S1", "P1"),
           Key(0, "T1", "L2", "S1", "P2"),
           Key(0, "T2", "L2", "S2", "P1") >>,
     metric_aggregator_dataframes |->
        << << [key |-> "agg_a", val |-> AggFrame({"m1", "score"},
                 << AggRow("S1", "L1", "T1", NaN, "P1",
                           ("m1" :> Num(12346)) @@ ("score" :> Num(80004))),
                    AggRow("S1", "L1", "T1", NaN, "P2",
                           ("m1" :> None) @@ ("score" :> Num(70006))),
                    AggRow("T1", "", "T1", Num(200000), "P1",
                           ("m1" :> Num(50000)) @@ ("score" :> Num(60000))),
                    AggRow("S2", "L2", "T2", NaN, "P1",
                           ("m1" :> NaN) @@ ("score" :> Num(99999))) >>)] >>,
           << [key |-> "agg_a", val |-> AggFrame({"m1"},
                 << AggRow("S1", "L1", "T1", NaN, "P1", ("m1" :> Num(33333))) >>)],
              [key |-> "agg_b", val |-> AggFrame({"m2"},
                 << AggRow("S1", "L1", "T1", NaN, "P1", ("m2" :> Num(44444))) >>)] >> >>,
     metric_statistics_dataframes |->
        << << [metric_statistic_name |-> "speed",
               planner_names |-> << "P1", "P2" >>,
               rows |-> << StatRow("S1", "T1", "L1", "P1",
                                   Series("m/s", << 10, 20 >>, << 12346, 20004 >>)),
                           StatRow("S1", "T1", "L1", "P2",
                                   Series("m/s", << 10 >>, << 55555 >>)),
                           StatRow("S1", "T1", "L2", "P2",
                                   Series("m/s", << >>, << >>)),
                           StatRow("S2", "T2", "L2", "P1", NoSeries) >>] >>,
           << [metric_statistic_name |-> "speed",
               planner_names |-> << "P1" >>,
               rows |-> << StatRow("S1", "T1", "L1", "P1",
                                   Series("m/s", << 10 >>, << 30000 >>)) >>] >> >>]

\* The second data set: two experiments with the same display name, and a
\* scenario (S2) that has simulation keys but no aggregator row.
ExperimentData2 ==
    [file_path_names |-> << "expA", "expA" >>,
     available_scenario_types |-> << "T1" >>,
     simulation_scenario_keys |->
        << Key(0, "T1", "L1", "S1", "P1"),
           Key(1, "T1", "L1", "S1", "P1"),
           Key(1, "T1", "L1", "S2", "P2") >>,
     metric_aggregator_dataframes |->
        << << [key |-> "agg_a", val |-> AggFrame({"score"},
                 << AggRow("S1", "L1", "T1", NaN, "P1", ("score" :> Num(10004))) >>)] >>,
           << [key |-> "agg_a", val |-> AggFrame({"score"},
                 << AggRow("S1", "L1", "T1", NaN, "P1", ("score" :> Num(20006))) >>)] >> >>,
     metric_statistics_dataframes |->
        << << [metric_statistic_name |-> "speed",
               planner_names |-> << "P1" >>,
               rows |-> << StatRow("S1", "T1", "L1", "P1",
                                   Series("m/s", << 10 >>, << 5 >>)) >>] >>,
           << [metric_statistic_name |-> "speed",
               planner_names |-> << "P1", "P2" >>,
               rows |-> << StatRow("S1", "T1", "L1", "P1",
                                   Series("m/s", << 10 >>, << 6 >>)),
                           StatRow("S2", "T1", "L1", "P2",
                                   Series("m/s", << 10, 20 >>, << 7, 8 >>)) >>] >> >>]

\* A fully populated metric row: every metric column holds a number, which
\* differs from column to column and from row to row.
FullRow(scenario, log, type, planner, metric_names, base) ==
    AggRow(scenario, log, type, NaN, planner,
           [c \in metric_names |-> Num(base + 10 * Rank(c) + 4)])

\* The third data set: two experiments whose aggregator table agg_a has one
\* fully populated row per planner (P1, P2) for scenario S1 and five metric
\* columns, and a table agg_b of nine metric columns for scenario S2.
ExperimentData3 ==
    [file_path_names |-> << "expA", "expB" >>,
     available_scenario_types |-> << "T1" >>,
     simulation_scenario_keys |->
        << Key(0, "T1", "L1", "S1", "P1"),
           Key(0, "T1", "L1", "S1", "P2"),
           Key(1, "T1", "L1", "S1", "P1"),
           Key(1, "T1", "L1", "S1", "P2"),
           Key(0, "T1", "L1", "S2", "P1") >>,
     metric_aggregator_dataframes |->
        << << [key |-> "agg_a", val |-> AggFrame({"m1", "m2", "m3", "score", "speed"},
                 << FullRow("S1", "L1", "T1", "P1", {"m1", "m2", "m3", "score", "speed"}, 10000),
                    FullRow("S1", "L1", "T1", "P2", {"m1", "m2", "m3", "score", "speed"}, 20000),
                    AggRow("T1", "", "T1", Num(100000), "P1",
                           [c \in {"m1", "m2", "m3", "score", "speed"} |-> Num(50000)]) >>)],
              [key |-> "agg_b", val |-> AggFrame(
                 {"m1", "m2", "m3", "m4", "m5", "m6", "score", "speed", "zeta"},
                 << FullRow("S2", "L1", "T1", "P1",
                      {"m1", "m2", "m3", "m4", "m5", "m6", "score", "speed", "zeta"},
                      30000) >>)] >>,
           << [key |-> "agg_a", val |-> AggFrame({"m1", "m2", "m3", "score", "speed"},
                 << FullRow("S1", "L1", "T1", "P1", {"m1", "m2", "m3", "score", "speed"}, 40000),
                    FullRow("S1", "L1", "T1", "P2", {"m1", "m2", "m3", "score", "speed"}, 50000)
                 >>)] >> >>,
     metric_statistics_dataframes |->
        << << [metric_statistic_name |-> "speed",
               planner_names |-> << "P1", "P2" >>,
               rows |-> << StatRow("S1", "T1", "L1", "P1",
                                   Series("m/s", << 10 >>, << 11 >>)),
                           StatRow("S1", "T1", "L1", "P2",
                                   Series("m/s", << 10 >>, << 12 >>)) >>] >>,
           << >> >>]

ExperimentFileData(d) ==
    IF d = 1 THEN ExperimentData1 ELSE IF d = 2 THEN ExperimentData2 ELSE ExperimentData3

\* The experiment indices of a data set.
ExperimentIndices(d) ==
    {i - 1 : i \in DOMAIN ExperimentFileData(d).file_path_names}


(***************************************************************************)
(* Collaborators owned by BaseTab and ExperimentFileData.                  *)
(***************************************************************************)
\* BaseTab.get_file_path_last_name: the display name of an experiment.
GetFilePathLastName(d, index) == ExperimentFileData(d).file_path_names[index + 1]

\* experiment_file_data.file_path_colors[index][planner]: a stable colour
\* per (experiment index, planner name).
FilePathColor(index, planner) == << index, planner >>

\* BaseTab.get_scatter_sign: the marker of an aggregator file index.
GetScatterSign(file_index) == file_index

\* BaseTab.enable_planner_names: the labels of the ticked checkboxes
\* (checkbox indices are 0-based).
EnablePlannerNames(labels, active) == {labels[i + 1] : i \in active}

\* BaseTab.load_log_name: the sorted log names of a scenario type.
LoadLogName(d, type) ==
    SortedList({k.log_name : k \in {x \in Range(ExperimentFileData(d).simulation_scenario_keys) :
                                        x.scenario_type = type}})

\* BaseTab.load_scenario_names: the sorted scenario names of a type and log.
LoadScenarioNames(d, type, log) ==
    SortedList({k.scenario_name : k \in {x \in Range(ExperimentFileData(d).simulation_scenario_keys) :
                                        x.scenario_type = type /\ x.log_name = log}})

\* An Optional[Tuple[str]] filter argument of query_scenarios.
AnyOf == [none |-> TRUE, names |-> {}]
Only(x) == [none |-> FALSE, names |-> {x}]

\* MetricStatisticsDataFrame.query_scenarios: the rows matching every
\* filter that is given; a filter that is None matches every row.
QueryScenarios(frame, scenario_names, scenario_types, planner_names, log_names) ==
    LET Match(row) ==
            /\ scenario_names.none \/ row.scenario_name \in scenario_names.names
            /\ scenario_types.none \/ row.scenario_type \in scenario_types.names
            /\ planner_names.none \/ row.planner_name \in planner_names.names
            /\ log_names.none \/ row.log_name \in log_names.names
    IN  SelectSeq(frame.rows, Match)

\* SimulationTile.render_simulation_tiles: one figure data per selected
\* key, carrying the planner name and the plot of that key.
RenderSimulationTiles(selected_keys) ==
    [i \in DOMAIN selected_keys |->
        [planner_name |-> selected_keys[i].planner_name, plot |-> selected_keys[i]]]

(***************************************************************************)
(* The metric-score store: {log name: {scenario name: [score data]}}, a    *)
(* defaultdict of defaultdicts of lists.                                   *)
(***************************************************************************)
EmptyStore == << >>

\* data[log][scenario]: reading a defaultdict creates the missing buckets.
StoreTouch(store, log, scenario) ==
    LET inner == IF log \in DOMAIN store THEN store[log] ELSE << >>
        inner2 == [n \in DOMAIN inner \cup {scenario} |->
                      IF n \in DOMAIN inner THEN inner[n] ELSE << >>]
    IN  [l \in DOMAIN store \cup {log} |-> IF l = log THEN inner2 ELSE store[l]]

\* Every score data of the store, as a set of [log, scenario, pos, entry].
StoreEntries(store) ==
    UNION {UNION {{[log |-> l, scenario |-> n, pos |-> i, entry |-> store[l][n][i]] :
                        i \in DOMAIN store[l][n]} : n \in DOMAIN store[l]} :
           l \in DOMAIN store}

NonMetricColumns ==
    {"scenario", "log_name", "scenario_type", "num_scenarios", "planner_name",
     "aggregator_type"}

\* A variant that also takes the summary rows (num_scenarios present).
RowScoreData_KeepsSummaryRows(index, file_index, filename, metric_columns, row) ==
    Flatten([c \in DOMAIN metric_columns |->
        LET score == row[metric_columns[c]]
        IN  IF score.kind # "none"
            THEN << [experiment_index |-> index,
                     metric_aggregator_file_name |-> filename,
                     metric_aggregator_file_index |-> file_index,
                     planner_name |-> row["planner_name"],
                     metric_statistic_name |-> metric_columns[c],
                     score |-> RoundCell(score)] >>
            ELSE << >>])

\* The score data one aggregator row contributes, in metric-column order.
RowScoreData(index, file_index, filename, metric_columns, row) ==
    IF row["num_scenarios"].kind # "nan"
    THEN << >>
    ELSE Flatten([c \in DOMAIN metric_columns |->
            LET score == row[metric_columns[c]]
            IN  IF score.kind # "none"
                THEN << [experiment_index |-> index,
                         metric_aggregator_file_name |-> filename,
                         metric_aggregator_file_index |-> file_index,
                         planner_name |-> row["planner_name"],
                         metric_statistic_name |-> metric_columns[c],
                         score |-> RoundCell(score)] >>
                ELSE << >>])

\* A variant that appends every score of a row twice.
AggregateRows_Repeats(index, file_index, filename, frame) ==
    Flatten([r \in DOMAIN frame.rows |->
        LET scores == RowScoreData(index, file_index, filename,
                                   SortedList(frame.columns \ NonMetricColumns),
                                   frame.rows[r])
        IN  [i \in DOMAIN (scores \o scores) |->
                [log |-> frame.rows[r]["log_name"],
                 scenario |-> frame.rows[r]["scenario"],
                 entry |-> (scores \o scores)[i]]]])

\* The loop over the rows of one aggregator dataframe: the appends it
\* makes, in order, each with the bucket it goes to.
AggregateRows(index, file_index, filename, frame) ==
    Flatten([r \in DOMAIN frame.rows |->
        LET scores == RowScoreData(index, file_index, filename,
                                   SortedList(frame.columns \ NonMetricColumns),
                                   frame.rows[r])
        IN  [i \in DOMAIN scores |->
                [log |-> frame.rows[r]["log_name"],
                 scenario |-> frame.rows[r]["scenario"],
                 entry |-> scores[i]]]])

\* The loop over the aggregator files of one experiment.
AggregateFiles(index, frames) ==
    Flatten([f \in DOMAIN frames |->
        AggregateRows(index, f - 1, frames[f].key, frames[f].val)])

\* data[log][scenario].append(entry) for every item, in order.
StoreAppendAll(store, items) ==
    LET logs == DOMAIN store \cup {items[i].log : i \in DOMAIN items}
        old(l) == IF l \in DOMAIN store THEN store[l] ELSE << >>
        names(l) == DOMAIN old(l)
                       \cup {items[i].scenario : i \in {j \in DOMAIN items : items[j].log = l}}
        before(l, n) == IF n \in DOMAIN old(l) THEN old(l)[n] ELSE << >>
        added(l, n) == SelectSeq(items, LAMBDA x : x.log = l /\ x.scenario = n)
    IN  [l \in logs |->
            [n \in names(l) |->
                before(l, n) \o [i \in DOMAIN added(l, n) |-> added(l, n)[i].entry]]]

\* The loop over the experiments, skipping the inactive ones.
AggregateExperiments(store, d, active) ==
    LET all == ExperimentFileData(d).metric_aggregator_dataframes
    IN  StoreAppendAll(store,
            Flatten([e \in DOMAIN all |->
                IF (e - 1) \notin active THEN << >>
                ELSE AggregateFiles(e - 1, all[e])]))

\* ScenarioTab._update_aggregation_metric
UpdateAggregationMetric(d, active) == AggregateExperiments(EmptyStore, d, active)


(***************************************************************************)
(* Time-series aggregation.  The result is the dict {metric statistic      *)
(* name: [time series data]} and the number of query_scenarios calls made. *)
(***************************************************************************)
\* A variant without the check of the first time-series cell.
AggregatePlanner_KeepsNone(acc, index, frame, planner_name, scenario_types, scenario_name, log_names) ==
    LET data_frame == QueryScenarios(frame, Only(scenario_name), scenario_types,
                                     Only(planner_name), log_names)
        queried == [acc EXCEPT !.queries = @ + 1]
    IN  IF Len(data_frame) = 0 THEN queried
        ELSE [queried EXCEPT !.data =
                 DictAppend(@, frame.metric_statistic_name,
                    [experiment_index |-> index,
                     planner_name |-> planner_name,
                     time_series_values |->
                         RoundAll(Flatten([i \in DOMAIN data_frame |->
                                             data_frame[i].series.values])),
                     time_series_timestamps |->
                         Flatten([i \in DOMAIN data_frame |->
                                     data_frame[i].series.timestamps]),
                     time_series_unit |-> data_frame[1].series.unit])]

\* The loop body for one planner of one metric statistics dataframe.
AggregatePlanner(acc, index, frame, planner_name, scenario_types, scenario_name, log_names) ==
    LET data_frame == QueryScenarios(frame, Only(scenario_name), scenario_types,
                                     Only(planner_name), log_names)
        queried == [acc EXCEPT !.queries = @ + 1]
    IN  IF Len(data_frame) = 0 THEN queried
        ELSE IF data_frame[1].series.kind = "none" THEN queried
        ELSE LET values == RoundAll(Flatten([i \in DOMAIN data_frame |->
                                               data_frame[i].series.values]))
                 timestamps == Flatten([i \in DOMAIN data_frame |->
                                               data_frame[i].series.timestamps])
                 sample == [experiment_index |-> index,
                            planner_name |-> planner_name,
                            time_series_values |-> values,
                            time_series_timestamps |-> timestamps,
                            time_series_unit |-> data_frame[1].series.unit]
             IN  [queried EXCEPT !.data =
                      DictAppend(@, frame.metric_statistic_name, sample)]

RECURSIVE AggregatePlanners(_, _, _, _, _, _, _)
\* for planner_name in planner_names
AggregatePlanners(acc, index, frame, p, scenario_types, scenario_name, log_names) ==
    IF p > Len(frame.planner_names) THEN acc
    ELSE AggregatePlanners(
            AggregatePlanner(acc, index, frame, frame.planner_names[p],
                             scenario_types, scenario_name, log_names),
            index, frame, p + 1, scenario_types, scenario_name, log_names)

RECURSIVE AggregateStatFrames(_, _, _, _, _, _, _)
\* for metric_statistics_dataframe in metric_statistics_dataframes
AggregateStatFrames(acc, index, frames, f, scenario_types, scenario_name, log_names) ==
    IF f > Len(frames) THEN acc
    ELSE LET ensured == [acc EXCEPT !.data =
                            DictEnsure(@, frames[f].metric_statistic_name)]
         IN  AggregateStatFrames(
                AggregatePlanners(ensured, index, frames[f], 1,
                                  scenario_types, scenario_name, log_names),
                index, frames, f + 1, scenario_types, scenario_name, log_names)

RECURSIVE AggregateStatExperiments(_, _, _, _, _, _, _)
\* for index, metric_statistics_dataframes in enumerate(...)
AggregateStatExperiments(acc, d, active, e, scenario_types, scenario_name, log_names) ==
    LET all == ExperimentFileData(d).metric_statistics_dataframes
    IN  IF e > Len(all) THEN acc
        ELSE IF (e - 1) \notin active
        THEN AggregateStatExperiments(acc, d, active, e + 1,
                                      scenario_types, scenario_name, log_names)
        ELSE AggregateStatExperiments(
                AggregateStatFrames(acc, e - 1, all[e], 1,
                                    scenario_types, scenario_name, log_names),
                d, active, e + 1, scenario_types, scenario_name, log_names)

\* A variant without the early return on an unset scenario name.
AggregateTimeSeriesData_NoGuard(d, active, type, log, name) ==
    AggregateStatExperiments([data |-> << >>, queries |-> 0], d, active, 1,
                             IF type # "" THEN Only(type) ELSE AnyOf, name,
                             IF log # "" THEN Only(log) ELSE AnyOf)

\* ScenarioTab._aggregate_time_series_data
AggregateTimeSeriesData(d, active, type, log, name) ==
    LET aggregated == [data |-> << >>, queries |-> 0]
        scenario_types == IF type # "" THEN Only(type) ELSE AnyOf
        log_names == IF log # "" THEN Only(log) ELSE AnyOf
    IN  IF name = "" THEN aggregated
        ELSE AggregateStatExperiments(aggregated, d, active, 1,
                                      scenario_types, name, log_names)

(***************************************************************************)
(* Rendering.  A figure is described by what the code puts into it.        *)
(***************************************************************************)
RECURSIVE RenderTimeSeriesLines_KeepsEmpty(_, _, _, _, _)
\* A variant that does not skip a sample without values.
RenderTimeSeriesLines_KeepsEmpty(figures, d, metric_statistic_name, samples, i) ==
    IF i > Len(samples) THEN figures
    ELSE LET created == DictEnsure(figures, metric_statistic_name)
             k == DictGet(created, metric_statistic_name)
         IN  RenderTimeSeriesLines_KeepsEmpty(
                [created EXCEPT ![k].val =
                    [title |-> metric_statistic_name,
                     y_axis_label |-> samples[i].time_series_unit,
                     x_axis_label |-> "frame",
                     lines |-> Append(IF created[k].val = << >> THEN << >>
                                      ELSE created[k].val.lines,
                                 [name |-> << samples[i].planner_name,
                                              GetFilePathLastName(
                                                  d, samples[i].experiment_index) >>,
                                  planner_name |-> samples[i].planner_name,
                                  color |-> FilePathColor(samples[i].experiment_index,
                                                          samples[i].planner_name),
                                  x |-> [j \in 1..Len(samples[i].time_series_values)
                                            |-> j - 1],
                                  y |-> samples[i].time_series_values,
                                  time_us |-> samples[i].time_series_timestamps])]],
                d, metric_statistic_name, samples, i + 1)

RECURSIVE RenderTimeSeriesLines(_, _, _, _, _)
\* The loop over the time series data of one metric statistic name.
RenderTimeSeriesLines(figures, d, metric_statistic_name, samples, i) ==
    IF i > Len(samples) THEN figures
    ELSE LET data == samples[i]
         IN  IF Len(data.time_series_values) = 0
             THEN RenderTimeSeriesLines(figures, d, metric_statistic_name, samples, i + 1)
             ELSE LET created ==
                          IF metric_statistic_name \in DictKeys(figures) THEN figures
                          ELSE Append(figures,
                                 [key |-> metric_statistic_name,
                                  val |-> [title |-> metric_statistic_name,
                                           y_axis_label |-> data.time_series_unit,
                                           x_axis_label |-> "frame",
                                           lines |-> << >>]])
                      line == [name |-> << data.planner_name,
                                           GetFilePathLastName(d, data.experiment_index) >>,
                               planner_name |-> data.planner_name,
                               color |-> FilePathColor(data.experiment_index,
                                                       data.planner_name),
                               x |-> [k \in 1..Len(data.time_series_values) |-> k - 1],
                               y |-> data.time_series_values,
                               time_us |-> data.time_series_timestamps]
                      k == DictGet(created, metric_statistic_name)
                  IN  RenderTimeSeriesLines(
                         [created EXCEPT ![k].val.lines = Append(@, line)],
                         d, metric_statistic_name, samples, i + 1)

RECURSIVE RenderTimeSeriesFrom(_, _, _, _)
RenderTimeSeriesFrom(figures, d, aggregated, m) ==
    IF m > Len(aggregated) THEN figures
    ELSE RenderTimeSeriesFrom(
            RenderTimeSeriesLines(figures, d, aggregated[m].key, aggregated[m].val, 1),
            d, aggregated, m + 1)

\* ScenarioTab._render_time_series
RenderTimeSeries(d, aggregated_time_series_data) ==
    RenderTimeSeriesFrom(<< >>, d, aggregated_time_series_data, 1)


\* self._number_metrics_per_figure
NumberMetricsPerFigure == 4

\* The key of a scatter data source: legend label (planner name and
\* experiment display name) plus the aggregator file index.
DataSourceIndex(d, score_data) ==
    << score_data.planner_name,
       GetFilePathLastName(d, score_data.experiment_index),
       score_data.metric_aggregator_file_index >>

\* One score data added to the data sources of a scatter figure.
AddToDataSource(data_sources, d, score_data) ==
    LET key == DataSourceIndex(d, score_data)
        experiment_name == GetFilePathLastName(d, score_data.experiment_index)
        created ==
            IF key \in DictKeys(data_sources) THEN data_sources
            ELSE Append(data_sources,
                   [key |-> key,
                    val |-> [xs |-> << >>, ys |-> << >>, planners |-> << >>,
                             aggregators |-> << >>, experiments |-> << >>,
                             fill_colors |-> << >>,
                             marker |-> GetScatterSign(
                                           score_data.metric_aggregator_file_index),
                             legend_label |-> << score_data.planner_name,
                                                 experiment_name >>]])
        k == DictGet(created, key)
    IN  [created EXCEPT
            ![k].val.xs = Append(@, score_data.metric_statistic_name),
            ![k].val.ys = Append(@, score_data.score),
            ![k].val.planners = Append(@, score_data.planner_name),
            ![k].val.aggregators = Append(@, score_data.metric_aggregator_file_name),
            ![k].val.experiments = Append(@, experiment_name),
            ![k].val.fill_colors = Append(@, FilePathColor(score_data.experiment_index,
                                                           score_data.planner_name))]

RECURSIVE ScatterScores(_, _, _, _)
ScatterScores(data_sources, d, metric_score_data, i) ==
    IF i > Len(metric_score_data) THEN data_sources
    ELSE ScatterScores(AddToDataSource(data_sources, d, metric_score_data[i]),
                       d, metric_score_data, i + 1)

RECURSIVE ScatterMetrics(_, _, _, _)
ScatterMetrics(data_sources, d, scenario_metric_score_data, m) ==
    IF m > Len(scenario_metric_score_data) THEN data_sources
    ELSE ScatterMetrics(
            ScatterScores(data_sources, d, scenario_metric_score_data[m].val, 1),
            d, scenario_metric_score_data, m + 1)

\* ScenarioTab._render_scenario_metric_score_scatter: the glyph renderers
\* added to one figure, one per data source, in creation order.
RenderScenarioMetricScoreScatter(d, scenario_metric_score_data) ==
    LET data_sources == ScatterMetrics(<< >>, d, scenario_metric_score_data, 1)
    IN  [i \in DOMAIN data_sources |-> data_sources[i].val]

\* A variant that leaves 'score' at its sorted position.
OrderedMetricNames_PlainSort(keys) == SortedList(keys)

\* The metric statistic names of the grouped score data, sorted, with
\* 'score' moved to the end.
OrderedMetricNames(keys) ==
    LET sorted == SortedList(keys)
    IN  IF "score" \in keys
        THEN SelectSeq(sorted, LAMBDA n : n # "score") \o << "score" >>
        ELSE sorted

\* A variant that rounds the number of figures down.
NumberOfFigures_Floor(n) == n \div NumberMetricsPerFigure

\* ceil(n / self._number_metrics_per_figure)
NumberOfFigures(n) == (n + NumberMetricsPerFigure - 1) \div NumberMetricsPerFigure

\* metric_statistic_names[starting_index:ending_index]
Slice(q, starting_index, ending_index) ==
    [i \in 1..(IF ending_index < Len(q) THEN ending_index ELSE Len(q)) - starting_index
        |-> q[starting_index + i]]

\* The score data of the selected bucket from the enabled planners, in
\* store order: what the grouping loop keeps.
EnabledScoreData(selected, enabled) ==
    SelectSeq(selected, LAMBDA x : x.planner_name \in enabled)

\* str(index) for the figure indices the model reaches.
IntToStr(i) == << "0", "1", "2", "3", "4", "5", "6", "7", "8", "9" >>[i + 1]

\* The figures built from the selected scenario's score data: a dict
\* {str(index): figure}; the figure's x_range is its chunk of metric names.
ScoreFigures(d, selected, enabled) ==
    LET kept == EnabledScoreData(selected, enabled)
        names == OrderedMetricNames({kept[i].metric_statistic_name : i \in DOMAIN kept})
        Group(n) == SelectSeq(kept, LAMBDA x : x.metric_statistic_name = n)
    IN  [index \in 1..NumberOfFigures(Len(names)) |->
            LET starting_index == (index - 1) * NumberMetricsPerFigure
                ending_index == starting_index + NumberMetricsPerFigure
                selected_metric_names == Slice(names, starting_index, ending_index)
                metric_score_data ==
                    [j \in DOMAIN selected_metric_names |->
                        [key |-> selected_metric_names[j],
                         val |-> Group(selected_metric_names[j])]]
            IN  [key |-> IntToStr(index - 1),
                 val |-> [x_range |-> selected_metric_names,
                          y_axis_label |-> "score",
                          renderers |-> RenderScenarioMetricScoreScatter(
                                            d, metric_score_data)]]]

\* ScenarioTab._render_scenario_metric_score: the figures, and the store
\* after the lookup of the selected bucket.
RenderScenarioMetricScore(d, store, log, name, enabled) ==
    IF log = "" \/ name = "" \/ DOMAIN store = {}
    THEN [figures |-> << >>, store |-> store]
    ELSE LET touched == StoreTouch(store, log, name)
         IN  [figures |-> ScoreFigures(d, touched[log][name], enabled),
              store |-> touched]

\* The three placeholder Divs and what a layout's first child can be.
DefaultTimeSeriesDiv == [kind |-> "div", div |-> "default_time_series_div", figures |-> << >>]
DefaultScenarioScoreDiv == [kind |-> "div", div |-> "default_scenario_score_div", figures |-> << >>]
DefaultSimulationDiv == [kind |-> "div", div |-> "default_simulation_div", figures |-> << >>]
NoLayout == [kind |-> "none", div |-> "", figures |-> << >>]
GridPlot(figures) == [kind |-> "grid", div |-> "", figures |-> figures]

\* ScenarioTab._render_grid_plot: the figures of the dict in order.
RenderGridPlot(figures) == GridPlot([i \in DOMAIN figures |-> figures[i].val])

\* ScenarioTab._render_scenario_metric_layout
RenderScenarioMetricLayout(figure_data, default_div) ==
    IF Len(figure_data) = 0 THEN DefaultTimeSeriesDiv
    ELSE RenderGridPlot(figure_data)

\* The simulation scenario keys of the current selection.
SelectedSimulationKeys(d, active, type, log, name) ==
    SelectSeq(ExperimentFileData(d).simulation_scenario_keys,
              LAMBDA key : /\ key.scenario_type = type
                           /\ key.log_name = log
                           /\ key.scenario_name = name
                           /\ key.nuboard_file_index \in active)

\* ScenarioTab._render_simulations: the layout, and the simulation figure
\* data after the call (kept as it was when no key is selected).
RenderSimulations(d, active, type, log, name, simulation_figure_data) ==
    LET selected_keys == SelectedSimulationKeys(d, active, type, log, name)
    IN  IF Len(selected_keys) = 0
        THEN [layout |-> DefaultSimulationDiv, figure_data |-> simulation_figure_data]
        ELSE LET rendered == RenderSimulationTiles(selected_keys)
             IN  [layout |-> GridPlot([i \in DOMAIN rendered |-> rendered[i].plot]),
                  figure_data |-> rendered]

\* The sorted planner names of the keys with the selected type and name.
SortedPlannerNames(d, type, name) ==
    SortedList({k.planner_name :
                  k \in {x \in Range(ExperimentFileData(d).simulation_scenario_keys) :
                            x.scenario_type = type /\ x.scenario_name = name}})


(***************************************************************************)
(* The state of the tab.                                                   *)
(***************************************************************************)
VARIABLES
    experiment_file_data,          \* the loaded data set (an element of DataSets)
    experiment_file_active_index,  \* the active experiment indices
    scenario_type_select,          \* [value, options] of the scenario type Select
    log_name_select,               \* [value, options] of the log name Select
    scenario_name_select,          \* [value, options] of the scenario name Select
    planner_checkbox_group,        \* [labels, active] of the planner checkboxes
    scenario_metric_score_data,    \* the metric-score store
    time_series_data,              \* the aggregated time-series data
    simulation_figure_data,        \* the simulation figure data last rendered
    simulation_plots,              \* the simulation layout waiting to be swapped in
    scenario_score_layout,         \* first child of the scenario score layout
    time_series_layout,            \* first child of the time series layout
    simulation_tile_layout,        \* first child of the simulation tile layout
    next_tick_callbacks,           \* number of queued _update_simulation_layouts
    calls                          \* what the last event ran, in order

vars == << experiment_file_data, experiment_file_active_index, scenario_type_select,
           log_name_select, scenario_name_select, planner_checkbox_group,
           scenario_metric_score_data, time_series_data, simulation_figure_data,
           simulation_plots, scenario_score_layout, time_series_layout,
           simulation_tile_layout, next_tick_callbacks, calls >>

\* The state as one record, for the handlers that call each other.
Self ==
    [experiment_file_data |-> experiment_file_data,
     experiment_file_active_index |-> experiment_file_active_index,
     scenario_type_select |-> scenario_type_select,
     log_name_select |-> log_name_select,
     scenario_name_select |-> scenario_name_select,
     planner_checkbox_group |-> planner_checkbox_group,
     scenario_metric_score_data |-> scenario_metric_score_data,
     time_series_data |-> time_series_data,
     simulation_figure_data |-> simulation_figure_data,
     simulation_plots |-> simulation_plots,
     scenario_score_layout |-> scenario_score_layout,
     time_series_layout |-> time_series_layout,
     simulation_tile_layout |-> simulation_tile_layout,
     next_tick_callbacks |-> next_tick_callbacks,
     calls |-> calls]

\* The next state is the record a handler returns.
Becomes(s) ==
    /\ experiment_file_data' = s.experiment_file_data
    /\ experiment_file_active_index' = s.experiment_file_active_index
    /\ scenario_type_select' = s.scenario_type_select
    /\ log_name_select' = s.log_name_select
    /\ scenario_name_select' = s.scenario_name_select
    /\ planner_checkbox_group' = s.planner_checkbox_group
    /\ scenario_metric_score_data' = s.scenario_metric_score_data
    /\ time_series_data' = s.time_series_data
    /\ simulation_figure_data' = s.simulation_figure_data
    /\ simulation_plots' = s.simulation_plots
    /\ scenario_score_layout' = s.scenario_score_layout
    /\ time_series_layout' = s.time_series_layout
    /\ simulation_tile_layout' = s.simulation_tile_layout
    /\ next_tick_callbacks' = s.next_tick_callbacks
    /\ calls' = s.calls

Called(s, what) == [s EXCEPT !.calls = Append(@, what)]

RECURSIVE CalledTimes(_, _, _)
CalledTimes(s, what, n) ==
    IF n = 0 THEN s ELSE CalledTimes(Called(s, what), what, n - 1)

\* The planner names whose checkboxes are ticked in state s.
EnabledIn(s) ==
    EnablePlannerNames(s.planner_checkbox_group.labels, s.planner_checkbox_group.active)

(***************************************************************************)
(* The handlers, each a function from the state before to the state after. *)
(***************************************************************************)
\* _update_planner_names, lines 331-332: the labels, all of them ticked.
CheckAll(s, sorted_planner_names) ==
    [s EXCEPT !.planner_checkbox_group =
        [labels |-> sorted_planner_names,
         active |-> {i - 1 : i \in DOMAIN sorted_planner_names}]]

\* ScenarioTab._update_planner_names
UpdatePlannerNames(s) ==
    CheckAll(Called(s, "update_planner_names"),
             SortedPlannerNames(s.experiment_file_data, s.scenario_type_select.value,
                                s.scenario_name_select.value))

\* _update_scenario_plot, lines 288-294: place the score layout.
PlaceScenarioScore(s, score) ==
    [Called(Called(s, "update_scenario_plot"), "scenario_score_layout") EXCEPT
        !.scenario_metric_score_data = score.store,
        !.scenario_score_layout =
            RenderScenarioMetricLayout(score.figures, DefaultScenarioScoreDiv)]

\* _update_scenario_plot, lines 284-294: render the score figures and
\* place their layout.
PlotScenarioScore(s) ==
    PlaceScenarioScore(s,
        RenderScenarioMetricScore(s.experiment_file_data, s.scenario_metric_score_data,
            s.log_name_select.value, s.scenario_name_select.value, EnabledIn(s)))

\* self._time_series_data = <the aggregation's result>
StoreTimeSeries(s, aggregated) ==
    [CalledTimes(Called(s, "aggregate_time_series_data"),
                 "query_scenarios", aggregated.queries) EXCEPT
        !.time_series_data = aggregated.data]

\* _update_scenario_plot, lines 296-297: aggregate the time series data.
PlotAggregateTimeSeries(s) ==
    StoreTimeSeries(s,
        AggregateTimeSeriesData(s.experiment_file_data, s.experiment_file_active_index,
            s.scenario_type_select.value, s.log_name_select.value,
            s.scenario_name_select.value))

\* _update_scenario_plot, lines 299-309: render the time series figures
\* and place their layout.
PlotTimeSeries(s) ==
    [Called(s, "time_series_layout") EXCEPT
        !.time_series_layout =
            RenderScenarioMetricLayout(
                RenderTimeSeries(s.experiment_file_data, s.time_series_data),
                DefaultTimeSeriesDiv)]

\* A variant that swaps the simulation layout inside the update itself.
DeferSimulations_Immediate(s, simulations) ==
    [Called(s, "simulation_tile_layout") EXCEPT
        !.simulation_figure_data = simulations.figure_data,
        !.simulation_plots = simulations.layout,
        !.simulation_tile_layout = simulations.layout]

\* _update_scenario_plot, lines 312-315: keep the rendered simulations and
\* queue the swap of the simulation layout for the next tick.
DeferSimulations(s, simulations) ==
    [Called(s, "add_next_tick_callback") EXCEPT
        !.simulation_figure_data = simulations.figure_data,
        !.simulation_plots = simulations.layout,
        !.next_tick_callbacks = @ + 1]

\* _update_scenario_plot, lines 311-315.
PlotSimulations(s) ==
    DeferSimulations(s,
        RenderSimulations(s.experiment_file_data, s.experiment_file_active_index,
            s.scenario_type_select.value, s.log_name_select.value,
            s.scenario_name_select.value, s.simulation_figure_data))

\* ScenarioTab._update_scenario_plot
UpdateScenarioPlot(s) ==
    PlotSimulations(PlotTimeSeries(PlotAggregateTimeSeries(PlotScenarioScore(s))))

\* ScenarioTab._update_simulation_layouts, the next-tick callback
UpdateSimulationLayouts(s) ==
    [Called(s, "simulation_tile_layout") EXCEPT
        !.simulation_tile_layout = s.simulation_plots]

\* _click_planner_checkbox_group, lines 242-248: the stored time series
\* data of the enabled planners.
FilteredTimeSeriesData(s) ==
    SelectSeq([i \in DOMAIN s.time_series_data |->
                  [key |-> s.time_series_data[i].key,
                   val |-> SelectSeq(s.time_series_data[i].val,
                                     LAMBDA data : data.planner_name \in EnabledIn(s))]],
              LAMBDA item : Len(item.val) > 0)

\* [data.plot for data in q]
Plots(q) == [i \in DOMAIN q |-> q[i].plot]

\* _click_planner_checkbox_group, lines 263-265: the stored simulation
\* plots of the enabled planners.
FilteredSimulationFigures(s) ==
    Plots(SelectSeq(s.simulation_figure_data,
                    LAMBDA data : data.planner_name \in EnabledIn(s)))

\* _click_planner_checkbox_group, lines 266-274.
FilteredSimulationLayout(figures) ==
    IF Len(figures) = 0 THEN DefaultSimulationDiv ELSE GridPlot(figures)

\* _click_planner_checkbox_group, given the rendered score figures.
ClickWithScore(s, score) ==
    [Called(Called(Called(Called(s, "click_planner_checkbox_group"),
                          "scenario_score_layout"),
                   "time_series_layout"),
            "simulation_tile_layout") EXCEPT
        !.scenario_metric_score_data = score.store,
        !.scenario_score_layout =
            RenderScenarioMetricLayout(score.figures, DefaultScenarioScoreDiv),
        !.time_series_layout =
            RenderScenarioMetricLayout(
                RenderTimeSeries(s.experiment_file_data, FilteredTimeSeriesData(s)),
                DefaultTimeSeriesDiv),
        !.simulation_tile_layout =
            FilteredSimulationLayout(FilteredSimulationFigures(s))]

\* A variant of the click handler that aggregates the time series again.
ClickPlannerCheckboxGroup_Reaggregates(s) ==
    ClickWithScore(PlotAggregateTimeSeries(s),
        RenderScenarioMetricScore(s.experiment_file_data, s.scenario_metric_score_data,
            s.log_name_select.value, s.scenario_name_select.value, EnabledIn(s)))

\* ScenarioTab._click_planner_checkbox_group
ClickPlannerCheckboxGroup(s) ==
    ClickWithScore(s,
        RenderScenarioMetricScore(s.experiment_file_data, s.scenario_metric_score_data,
            s.log_name_select.value, s.scenario_name_select.value, EnabledIn(s)))

\* A variant of the handler that returns early on the unset value, as the
\* scenario type and log name handlers do.
ScalarScenarioNameSelectOnChange_Guarded(s, old, new) ==
    IF new = "" THEN Called(s, "scenario_name_select_on_change")
    ELSE UpdateScenarioPlot(UpdatePlannerNames(Called(s, "scenario_name_select_on_change")))

\* ScenarioTab._scalar_scenario_name_select_on_change
ScalarScenarioNameSelectOnChange(s, old, new) ==
    UpdateScenarioPlot(UpdatePlannerNames(Called(s, "scenario_name_select_on_change")))

\* self._scalar_scenario_name_select.value = value
SetScenarioNameValue(s, value) ==
    IF s.scenario_name_select.value = value THEN s
    ELSE ScalarScenarioNameSelectOnChange(
            [s EXCEPT !.scenario_name_select.value = value],
            s.scenario_name_select.value, value)

\* ScenarioTab._scalar_log_name_select_on_change
ScalarLogNameSelectOnChange(s, old, new) ==
    IF new = "" THEN Called(s, "log_name_select_on_change")
    ELSE SetScenarioNameValue(
            [Called(s, "log_name_select_on_change") EXCEPT
                !.scenario_name_select.options =
                    << "" >> \o LoadScenarioNames(s.experiment_file_data,
                                                  s.scenario_type_select.value,
                                                  s.log_name_select.value)], "")

\* self._scalar_log_name_select.value = value
SetLogNameValue(s, value) ==
    IF s.log_name_select.value = value THEN s
    ELSE ScalarLogNameSelectOnChange(
            [s EXCEPT !.log_name_select.value = value], s.log_name_select.value, value)

\* ScenarioTab._scalar_scenario_type_select_on_change
ScalarScenarioTypeSelectOnChange(s, old, new) ==
    IF new = "" THEN Called(s, "scenario_type_select_on_change")
    ELSE SetLogNameValue(
            [Called(s, "scenario_type_select_on_change") EXCEPT
                !.log_name_select.options =
                    << "" >> \o LoadLogName(s.experiment_file_data,
                                            s.scenario_type_select.value)], "")

\* self._scalar_scenario_type_select.value = value
SetScenarioTypeValue(s, value) ==
    IF s.scenario_type_select.value = value THEN s
    ELSE ScalarScenarioTypeSelectOnChange(
            [s EXCEPT !.scenario_type_select.value = value],
            s.scenario_type_select.value, value)

\* _init_selection, lines 379-380
ResetScenarioType(s) ==
    [SetScenarioTypeValue(s, "") EXCEPT !.scenario_type_select.options = << >>]

\* _init_selection, lines 381-382
ResetLogName(s) ==
    [SetLogNameValue(s, "") EXCEPT !.log_name_select.options = << >>]

\* A variant of the reset that clears the options and forgets the value.
ResetScenarioName_KeepsValue(s) ==
    [s EXCEPT !.scenario_name_select.options = << >>]

\* _init_selection, lines 383-385
ResetScenarioName(s) ==
    [SetScenarioNameValue(s, "") EXCEPT !.scenario_name_select.options = << >>]

\* _init_selection, lines 387-388
FillScenarioTypeOptions(s) ==
    IF Len(s.scenario_type_select.options) = 0
    THEN [s EXCEPT !.scenario_type_select.options =
             << "" >> \o ExperimentFileData(s.experiment_file_data).available_scenario_types]
    ELSE s

\* _init_selection, lines 390-391
SelectFirstScenarioType(s) ==
    IF Len(s.scenario_type_select.options) > 0
    THEN SetScenarioTypeValue(s, s.scenario_type_select.options[1])
    ELSE s

\* ScenarioTab._init_selection
InitSelection(s) ==
    UpdatePlannerNames(SelectFirstScenarioType(FillScenarioTypeOptions(
        ResetScenarioName(ResetLogName(ResetScenarioType(s))))))

\* A variant that patches the previous store instead of replacing it.
RebuildStore_Patches(s) ==
    [Called(s, "update_aggregation_metric") EXCEPT
        !.scenario_metric_score_data =
            AggregateExperiments(s.scenario_metric_score_data, s.experiment_file_data,
                                 s.experiment_file_active_index)]

\* file_paths_on_change, line 222
RebuildStore(s) ==
    [Called(s, "update_aggregation_metric") EXCEPT
        !.scenario_metric_score_data =
            UpdateAggregationMetric(s.experiment_file_data,
                                    s.experiment_file_active_index)]

\* ScenarioTab.file_paths_on_change
FilePathsOnChangeHandler(s, d, active) ==
    UpdateScenarioPlot(RebuildStore(InitSelection(
        [Called(s, "file_paths_on_change") EXCEPT
            !.experiment_file_data = d,
            !.experiment_file_active_index = active])))

(***************************************************************************)
(* The state after construction: __init__ ends with _init_selection(),     *)
(* which finds every Select already at "" and so triggers no handler.      *)
(***************************************************************************)
Init ==
    \E d \in DataSets :
        /\ experiment_file_data = d
        /\ experiment_file_active_index = {}
        /\ scenario_type_select =
              [value |-> "",
               options |-> << "" >> \o ExperimentFileData(d).available_scenario_types]
        /\ log_name_select = [value |-> "", options |-> << >>]
        /\ scenario_name_select = [value |-> "", options |-> << >>]
        /\ planner_checkbox_group = [labels |-> << >>, active |-> {}]
        /\ scenario_metric_score_data = EmptyStore
        /\ time_series_data = << >>
        /\ simulation_figure_data = << >>
        /\ simulation_plots = NoLayout
        /\ scenario_score_layout = DefaultScenarioScoreDiv
        /\ time_series_layout = DefaultTimeSeriesDiv
        /\ simulation_tile_layout = DefaultSimulationDiv
        /\ next_tick_callbacks = 0
        /\ calls = << >>

\* The state in which an event of the given kind starts.
Event(kind) == [Self EXCEPT !.calls = << kind >>]

\* An event is taken only while the callback queue stays within its bound.
Handled(s) == s.next_tick_callbacks <= MaxPending /\ Becomes(s)

(***************************************************************************)
(* The events.                                                             *)
(***************************************************************************)
\* The user picks another scenario type among the options.
SelectScenarioType ==
    \E new \in Range(scenario_type_select.options) \ {scenario_type_select.value} :
        Handled(SetScenarioTypeValue(Event("select_scenario_type"), new))

\* The user picks another log name among the options.
SelectLogName ==
    \E new \in Range(log_name_select.options) \ {log_name_select.value} :
        Handled(SetLogNameValue(Event("select_log_name"), new))

\* The user picks another scenario name among the options.
SelectScenarioName ==
    \E new \in Range(scenario_name_select.options) \ {scenario_name_select.value} :
        Handled(SetScenarioNameValue(Event("select_scenario_name"), new))

\* The user ticks or unticks planner checkboxes.  The handler is the click
\* handler of the checkbox group (docstring at line 227): it runs on clicks
\* of the user, not on the assignments to labels and active made by
\* _update_planner_names.
ClickPlannerCheckbox ==
    \E active \in SUBSET {i - 1 : i \in DOMAIN planner_checkbox_group.labels} :
        /\ active # planner_checkbox_group.active
        /\ Handled(ClickPlannerCheckboxGroup(
              [Event("click_planner_checkbox") EXCEPT
                  !.planner_checkbox_group.active = active]))

\* The set of loaded experiment files, or of active experiments, changes.
FilePathsOnChange ==
    \E d \in DataSets :
        \E active \in SUBSET ExperimentIndices(d) :
            Handled(FilePathsOnChangeHandler(Event("file_paths_on_change_event"), d, active))

\* The event loop runs one queued next-tick callback.
NextTick ==
    /\ next_tick_callbacks > 0
    /\ Becomes(UpdateSimulationLayouts(
          [Event("next_tick") EXCEPT !.next_tick_callbacks = @ - 1]))

Next ==
    \/ SelectScenarioType
    \/ SelectLogName
    \/ SelectScenarioName
    \/ ClickPlannerCheckbox
    \/ FilePathsOnChange
    \/ NextTick

Spec == Init /\ [][Next]_vars

(***************************************************************************)
(* The tab over the third data set only: the same handlers, with the fully *)
(* populated aggregator tables loaded.                                     *)
(***************************************************************************)
TableDataSets == {3}

InitTable ==
    \E d \in TableDataSets :
        /\ experiment_file_data = d
        /\ experiment_file_active_index = {}
        /\ scenario_type_select =
              [value |-> "",
               options |-> << "" >> \o ExperimentFileData(d).available_scenario_types]
        /\ log_name_select = [value |-> "", options |-> << >>]
        /\ scenario_name_select = [value |-> "", options |-> << >>]
        /\ planner_checkbox_group = [labels |-> << >>, active |-> {}]
        /\ scenario_metric_score_data = EmptyStore
        /\ time_series_data = << >>
        /\ simulation_figure_data = << >>
        /\ simulation_plots = NoLayout
        /\ scenario_score_layout = DefaultScenarioScoreDiv
        /\ time_series_layout = DefaultTimeSeriesDiv
        /\ simulation_tile_layout = DefaultSimulationDiv
        /\ next_tick_callbacks = 0
        /\ calls = << >>

\* The set of active experiments of the third data set changes.
FilePathsOnChangeTable ==
    \E d \in TableDataSets :
        \E active \in SUBSET ExperimentIndices(d) :
            Handled(FilePathsOnChangeHandler(Event("file_paths_on_change_event"), d, active))

NextTable ==
    \/ SelectScenarioType
    \/ SelectLogName
    \/ SelectScenarioName
    \/ ClickPlannerCheckbox
    \/ FilePathsOnChangeTable
    \/ NextTick

SpecTable == InitTable /\ [][NextTable]_vars


(***************************************************************************)
(* Properties.                                                             *)
(***************************************************************************)
\* What the last event ran.
Ran(what) == \E i \in DOMAIN calls : calls[i] = what

LastEvent == IF Len(calls) = 0 THEN "" ELSE calls[1]

\* The planner names currently enabled.
Enabled ==
    EnablePlannerNames(planner_checkbox_group.labels, planner_checkbox_group.active)

SelectionEvent ==
    LastEvent \in {"select_scenario_type", "select_log_name", "select_scenario_name"}

\* C1: whenever the scenario-type selection changes, after the change
\* handler and every handler it triggers have run, the log-name selection
\* and the scenario-name selection are both unset.
C1_TypeChangeClearsLogAndScenario ==
    [][scenario_type_select'.value # scenario_type_select.value
         => /\ log_name_select'.value = ""
            /\ scenario_name_select'.value = ""]_vars

\* C2: whenever the log-name selection changes, after the change handler
\* has run the scenario-name selection is unset, whatever the new log name
\* is, the unset value included.
C2_LogChangeClearsScenario ==
    [][log_name_select'.value # log_name_select.value
         => scenario_name_select'.value = ""]_vars

\* The first available scenario type of the loaded data ("" when none).
FirstAvailableScenarioType ==
    IF Len(ExperimentFileData(experiment_file_data).available_scenario_types) = 0
    THEN ""
    ELSE ExperimentFileData(experiment_file_data).available_scenario_types[1]

\* C3 as stated: after file_paths_on_change the scenario type is the first
\* available scenario type of the new data, and log name and scenario name
\* are unset.
C3_FileChangeSelectsFirstType ==
    LastEvent = "file_paths_on_change_event"
        => /\ scenario_type_select.value = FirstAvailableScenarioType
           /\ log_name_select.value = ""
           /\ scenario_name_select.value = ""

\* C3 as amended: after file_paths_on_change, from any prior selection, the
\* scenario type is the first option of the rebuilt option list, which is
\* the unset value followed by the available types, so that scenario type,
\* log name and scenario name are all unset.
C3_FileChangeResetsSelection ==
    LastEvent = "file_paths_on_change_event"
        => /\ scenario_type_select.options =
                 << "" >> \o ExperimentFileData(experiment_file_data).available_scenario_types
           /\ scenario_type_select.value = scenario_type_select.options[1]
           /\ scenario_type_select.value = ""
           /\ log_name_select.value = ""
           /\ scenario_name_select.value = ""

\* A file change that found a scenario name selected and reset it.
C3_Witness ==
    /\ LastEvent = "file_paths_on_change_event"
    /\ Ran("scenario_name_select_on_change")
    /\ Ran("log_name_select_on_change")
    /\ Ran("scenario_type_select_on_change")

\* The parts of the pipeline that follows a scenario-name change.
PipelineParts ==
    {"update_planner_names", "aggregate_time_series_data", "scenario_score_layout",
     "time_series_layout", "add_next_tick_callback"}

SomePipelinePartRan == \E part \in PipelineParts : Ran(part)

WholePipelineRan == \A part \in PipelineParts : Ran(part)

\* C4 as stated: on a selection change the planner names, the aggregation,
\* the rendering and the layouts are recomputed only when the scenario name
\* has become set; a change of the scenario name to the unset value
\* triggers none of them.
C4_PipelineOnlyWhenScenarioSet ==
    (SelectionEvent /\ SomePipelinePartRan) => scenario_name_select.value # ""

\* C4 as amended: on a selection change the whole pipeline runs exactly
\* when the scenario-name value changed, whether it became set or unset;
\* a change that leaves the scenario name as it was runs no part of it.
C4_PipelineOnEveryScenarioNameChange ==
    [][SelectionEvent'
         => IF scenario_name_select'.value # scenario_name_select.value
            THEN WholePipelineRan'
            ELSE ~SomePipelinePartRan']_vars

\* A log-name change reset a selected scenario name, and the pipeline ran
\* with the scenario name unset.
C4_Witness ==
    /\ LastEvent = "select_log_name"
    /\ scenario_name_select.value = ""
    /\ WholePipelineRan

\* Position of the first occurrence of what in calls at or after i (0: none).
NextCall(what, i) ==
    IF \E j \in i..Len(calls) : calls[j] = what
    THEN CHOOSE j \in i..Len(calls) :
            calls[j] = what /\ \A k \in i..(j - 1) : calls[k] # what
    ELSE 0

\* In every run of the scenario-plot update recorded in calls: the score
\* layout, then the time series layout are placed, then the callback is
\* queued, and the simulation layout is not written in between.
UpdatesDeferSimulation ==
    \A i \in DOMAIN calls :
        calls[i] = "update_scenario_plot"
            => LET a == NextCall("scenario_score_layout", i)
                   b == NextCall("time_series_layout", i)
                   c == NextCall("add_next_tick_callback", i)
               IN  /\ i < a /\ a < b /\ b < c
                   /\ \A j \in i..c : calls[j] # "simulation_tile_layout"

\* C5: a run of the scenario-plot update places the score layout and the
\* time series layout, leaves the visible simulation layout as it was and
\* queues the swap for a later tick; the swap happens in the callback only.
C5_SimulationLayoutSwappedAfterMetricLayouts ==
    [][Ran("update_scenario_plot")'
         => /\ UpdatesDeferSimulation'
            /\ simulation_tile_layout' = simulation_tile_layout
            /\ next_tick_callbacks' > next_tick_callbacks]_vars

\* An update has placed both metric layouts and rendered simulation tiles,
\* and the visible simulation layout still shows the placeholder.
C5_Witness ==
    /\ LastEvent = "select_scenario_name"
    /\ scenario_score_layout.kind = "grid"
    /\ time_series_layout.kind = "grid"
    /\ simulation_plots.kind = "grid"
    /\ simulation_tile_layout = DefaultSimulationDiv
    /\ next_tick_callbacks > 0


\* C6: a planner-checkbox event leaves the stored time-series data, the
\* metric-score store and the stored simulation figure data as they were,
\* and runs neither the metric-score aggregation nor the time-series
\* aggregation (no dataframe is queried).
C6_CheckboxLeavesAggregatedData ==
    [][LastEvent' = "click_planner_checkbox"
         => /\ time_series_data' = time_series_data
            /\ scenario_metric_score_data' = scenario_metric_score_data
            /\ simulation_figure_data' = simulation_figure_data
            /\ ~Ran("update_aggregation_metric")'
            /\ ~Ran("aggregate_time_series_data")'
            /\ ~Ran("query_scenarios")']_vars

\* A checkbox event with a scenario selected and all three kinds of
\* aggregated data present.
C6_Witness ==
    /\ LastEvent = "click_planner_checkbox"
    /\ log_name_select.value # ""
    /\ scenario_name_select.value # ""
    /\ DOMAIN scenario_metric_score_data # {}
    /\ \E i \in DOMAIN time_series_data : Len(time_series_data[i].val) > 0
    /\ Len(simulation_figure_data) > 0

\* The score points shown in the scenario score layout.
ShownScorePoints ==
    UNION {UNION {{[figure |-> f,
                    in_x_range |-> scenario_score_layout.figures[f].renderers[r].xs[k]
                                     \in Range(scenario_score_layout.figures[f].x_range),
                    metric |-> scenario_score_layout.figures[f].renderers[r].xs[k],
                    score |-> scenario_score_layout.figures[f].renderers[r].ys[k],
                    planner |-> scenario_score_layout.figures[f].renderers[r].planners[k],
                    experiment |-> scenario_score_layout.figures[f].renderers[r].experiments[k],
                    aggregator |-> scenario_score_layout.figures[f].renderers[r].aggregators[k]] :
                        k \in DOMAIN scenario_score_layout.figures[f].renderers[r].xs} :
                   r \in DOMAIN scenario_score_layout.figures[f].renderers} :
           f \in DOMAIN scenario_score_layout.figures}

\* The lines shown in the time series layout.
ShownTimeSeriesLines ==
    UNION {{[metric |-> time_series_layout.figures[f].title,
             planner |-> time_series_layout.figures[f].lines[k].planner_name,
             color |-> time_series_layout.figures[f].lines[k].color,
             y |-> time_series_layout.figures[f].lines[k].y] :
                k \in DOMAIN time_series_layout.figures[f].lines} :
           f \in DOMAIN time_series_layout.figures}

\* The stored score data of the selected (log name, scenario name) bucket.
SelectedScoreData ==
    IF /\ log_name_select.value \in DOMAIN scenario_metric_score_data
       /\ scenario_name_select.value
              \in DOMAIN scenario_metric_score_data[log_name_select.value]
    THEN scenario_metric_score_data[log_name_select.value][scenario_name_select.value]
    ELSE << >>

\* The stored time series data, as a set of [metric, sample].
StoredTimeSeries ==
    UNION {{[metric |-> time_series_data[i].key, sample |-> time_series_data[i].val[k]] :
                k \in DOMAIN time_series_data[i].val} :
           i \in DOMAIN time_series_data}

\* The score points shown, wherever they are placed.
ShownScores ==
    {[metric |-> p.metric, score |-> p.score, planner |-> p.planner,
      experiment |-> p.experiment, aggregator |-> p.aggregator] : p \in ShownScorePoints}

\* C7: after a planner-checkbox event no score point and no time series
\* line belongs to a planner outside the enabled set; every score and every
\* time series that was shown and belongs to an enabled planner is still
\* shown; and every stored score of the selected log and scenario and every
\* stored time series (with at least one value) of an enabled planner is
\* shown.
C7_CheckboxShowsExactlyEnabledPlanners ==
    [][LastEvent' = "click_planner_checkbox"
         => /\ \A p \in ShownScorePoints' : p.planner \in Enabled' /\ p.in_x_range
            /\ \A l \in ShownTimeSeriesLines' : l.planner \in Enabled'
            /\ \A p \in ShownScores : p.planner \in Enabled' => p \in ShownScores'
            /\ \A l \in ShownTimeSeriesLines :
                  l.planner \in Enabled' => l \in ShownTimeSeriesLines'
            /\ \A i \in DOMAIN SelectedScoreData' :
                  SelectedScoreData[i]'.planner_name \in Enabled'
                      => [metric |-> SelectedScoreData[i]'.metric_statistic_name,
                          score |-> SelectedScoreData[i]'.score,
                          planner |-> SelectedScoreData[i]'.planner_name,
                          experiment |-> GetFilePathLastName(experiment_file_data',
                                             SelectedScoreData[i]'.experiment_index),
                          aggregator |-> SelectedScoreData[i]'.metric_aggregator_file_name]
                             \in ShownScores'
            /\ \A x \in StoredTimeSeries' :
                  (x.sample.planner_name \in Enabled'
                      /\ Len(x.sample.time_series_values) > 0)
                      => [metric |-> x.metric,
                          planner |-> x.sample.planner_name,
                          color |-> FilePathColor(x.sample.experiment_index,
                                                  x.sample.planner_name),
                          y |-> x.sample.time_series_values]
                             \in ShownTimeSeriesLines']_vars

\* The planner names of the simulation keys that match the selection; an
\* unset log name matches every log.
PlannersOfSelection(d, type, log, name) ==
    {k.planner_name :
        k \in {x \in Range(ExperimentFileData(d).simulation_scenario_keys) :
                  /\ x.scenario_type = type
                  /\ x.scenario_name = name
                  /\ (log = "" \/ x.log_name = log)}}

\* C8: every time the scenario-name selection changes, the
\* enabled planners become all planners available for the selected
\* scenario type, log name and scenario name.
C8_EnabledResetToPlannersOfSelection ==
    [][scenario_name_select'.value # scenario_name_select.value
         => Enabled' = PlannersOfSelection(experiment_file_data',
                           scenario_type_select'.value, log_name_select'.value,
                           scenario_name_select'.value)]_vars

\* The (experiment, file, row, column) cells of the active experiments'
\* aggregator tables that carry a score: per-scenario rows (num_scenarios
\* is NaN), metric columns, value not None.
ScoreCells(d, active) ==
    LET frames(e) == ExperimentFileData(d).metric_aggregator_dataframes[e + 1]
        all == UNION {UNION {UNION {{[e |-> e, f |-> f, r |-> r, c |-> c] :
                                        c \in frames(e)[f].val.columns \ NonMetricColumns} :
                                    r \in DOMAIN frames(e)[f].val.rows} :
                             f \in DOMAIN frames(e)} :
                      e \in active \cap ExperimentIndices(d)}
    IN  {x \in all : /\ frames(x.e)[x.f].val.rows[x.r]["num_scenarios"].kind = "nan"
                     /\ frames(x.e)[x.f].val.rows[x.r][x.c].kind # "none"}

\* The store entry a score cell stands for.
EntryOfCell(d, x) ==
    LET file == ExperimentFileData(d).metric_aggregator_dataframes[x.e + 1][x.f]
        row == file.val.rows[x.r]
    IN  [log |-> row["log_name"], scenario |-> row["scenario"],
         entry |-> [experiment_index |-> x.e,
                    metric_aggregator_file_name |-> file.key,
                    metric_aggregator_file_index |-> x.f - 1,
                    planner_name |-> row["planner_name"],
                    metric_statistic_name |-> x.c,
                    score |-> RoundCell(row[x.c])]]

\* C9: after an experiment-file-set change the store is exactly the
\* aggregation of the new data over the active experiments: one entry per
\* score cell of an active experiment, nothing else and nothing twice.
C9_FileChangeRebuildsStore ==
    LastEvent = "file_paths_on_change_event"
        => /\ scenario_metric_score_data =
                 UpdateAggregationMetric(experiment_file_data, experiment_file_active_index)
           /\ {[log |-> x.log, scenario |-> x.scenario, entry |-> x.entry] :
                  x \in StoreEntries(scenario_metric_score_data)}
                 = {EntryOfCell(experiment_file_data, x) :
                       x \in ScoreCells(experiment_file_data, experiment_file_active_index)}
           /\ Cardinality(StoreEntries(scenario_metric_score_data))
                 = Cardinality(ScoreCells(experiment_file_data, experiment_file_active_index))
           /\ \A x \in StoreEntries(scenario_metric_score_data) :
                 x.entry.experiment_index \in experiment_file_active_index

\* A file change that found a scenario selected, left some experiment
\* inactive and rebuilt a store with entries.
C9_Witness ==
    /\ LastEvent = "file_paths_on_change_event"
    /\ Ran("scenario_name_select_on_change")
    /\ StoreEntries(scenario_metric_score_data) # {}
    /\ ExperimentIndices(experiment_file_data) \ experiment_file_active_index # {}

\* C10: when no scenario name is selected the time-series aggregation
\* returns an empty mapping without querying any dataframe, whatever the
\* scenario type, the log name, the data and the active experiments.
C10_NoScenarioNameNoTimeSeries ==
    (Ran("aggregate_time_series_data") /\ scenario_name_select.value = "")
        => /\ time_series_data = << >>
           /\ ~Ran("query_scenarios")
           /\ \A type \in {"", "T1", "T2"}, log \in {"", "L1", "L2"} :
                 AggregateTimeSeriesData(experiment_file_data,
                     experiment_file_active_index, type, log, "")
                   = [data |-> << >>, queries |-> 0]

\* The aggregation ran with a scenario type, a log name and active
\* experiments, and with no scenario name.
C10_Witness ==
    /\ Ran("aggregate_time_series_data")
    /\ scenario_name_select.value = ""
    /\ scenario_type_select.value # ""
    /\ log_name_select.value # ""
    /\ experiment_file_active_index # {}


\* The metric cells (experiment, file, row, column) of the active
\* experiments' aggregator tables, whatever they hold.
MetricCells(d, active) ==
    LET frames(e) == ExperimentFileData(d).metric_aggregator_dataframes[e + 1]
    IN  UNION {UNION {UNION {{[e |-> e, f |-> f, r |-> r, c |-> c] :
                                 c \in frames(e)[f].val.columns \ NonMetricColumns} :
                             r \in DOMAIN frames(e)[f].val.rows} :
                      f \in DOMAIN frames(e)} :
               e \in active \cap ExperimentIndices(d)}

CellRow(d, x) ==
    ExperimentFileData(d).metric_aggregator_dataframes[x.e + 1][x.f].val.rows[x.r]

\* The entries of the store, in whatever bucket, that carry the experiment,
\* file, planner and metric of a cell and sit in the bucket of its row.
EntriesOfCell(store, d, x) ==
    {y \in StoreEntries(store) :
        /\ y.log = CellRow(d, x)["log_name"]
        /\ y.scenario = CellRow(d, x)["scenario"]
        /\ y.entry.experiment_index = x.e
        /\ y.entry.metric_aggregator_file_index = x.f - 1
        /\ y.entry.planner_name = CellRow(d, x)["planner_name"]
        /\ y.entry.metric_statistic_name = x.c}

\* C11: a row whose num_scenarios is present contributes no entry to the
\* store, for any metric column; every entry of the store comes from a
\* row whose num_scenarios is empty.
C11_SummaryRowsContributeNothing ==
    LET cells == MetricCells(experiment_file_data, experiment_file_active_index)
    IN  /\ \A x \in cells :
              CellRow(experiment_file_data, x)["num_scenarios"].kind # "nan"
                  => EntriesOfCell(scenario_metric_score_data, experiment_file_data, x) = {}
        /\ \A y \in StoreEntries(scenario_metric_score_data) :
              \E x \in cells :
                  /\ CellRow(experiment_file_data, x)["num_scenarios"].kind = "nan"
                  /\ y \in EntriesOfCell(scenario_metric_score_data, experiment_file_data, x)

\* The store was rebuilt from an active experiment that has a summary row
\* with numbers in its metric columns next to per-scenario rows.
C11_Witness ==
    /\ LastEvent = "file_paths_on_change_event"
    /\ StoreEntries(scenario_metric_score_data) # {}
    /\ \E x \in MetricCells(experiment_file_data, experiment_file_active_index) :
          /\ CellRow(experiment_file_data, x)["num_scenarios"].kind = "num"
          /\ CellRow(experiment_file_data, x)[x.c].kind = "num"

\* The experiments, planners and metric names found in a bucket.
BucketExperiments(bucket) == {bucket[i].experiment_index : i \in DOMAIN bucket}
BucketPlanners(bucket) == {bucket[i].planner_name : i \in DOMAIN bucket}
BucketMetrics(bucket) == {bucket[i].metric_statistic_name : i \in DOMAIN bucket}

\* C12: in the store each metric cell of a per-scenario row has at most one
\* entry, and every entry lies in the bucket of the row it comes from; no
\* entry is named after a reserved column; and a bucket that holds every
\* combination of its E experiments, P planners and M metric names holds
\* exactly E * P * M entries.
C12_OneEntryPerCellInItsBucket ==
    /\ \A x \in MetricCells(experiment_file_data, experiment_file_active_index) :
          Cardinality(EntriesOfCell(scenario_metric_score_data, experiment_file_data, x)) <= 1
    /\ \A y \in StoreEntries(scenario_metric_score_data) :
          /\ y.entry.metric_statistic_name \notin NonMetricColumns
          /\ \E x \in ScoreCells(experiment_file_data, experiment_file_active_index) :
                EntryOfCell(experiment_file_data, x)
                    = [log |-> y.log, scenario |-> y.scenario, entry |-> y.entry]
    /\ \A l \in DOMAIN scenario_metric_score_data :
          \A n \in DOMAIN scenario_metric_score_data[l] :
              LET bucket == scenario_metric_score_data[l][n]
              IN  /\ Len(bucket) =
                        Cardinality({x \in ScoreCells(experiment_file_data,
                                                      experiment_file_active_index) :
                                        /\ CellRow(experiment_file_data, x)["log_name"] = l
                                        /\ CellRow(experiment_file_data, x)["scenario"] = n})
                  /\ (\A e \in BucketExperiments(bucket), q \in BucketPlanners(bucket),
                         m \in BucketMetrics(bucket) :
                            \E i \in DOMAIN bucket :
                                /\ bucket[i].experiment_index = e
                                /\ bucket[i].planner_name = q
                                /\ bucket[i].metric_statistic_name = m)
                        => Len(bucket) = Cardinality(BucketExperiments(bucket))
                                            * Cardinality(BucketPlanners(bucket))
                                            * Cardinality(BucketMetrics(bucket))

\* Two experiments, two planners and five metric columns give a bucket of
\* twenty entries.
C12_Witness ==
    /\ "L1" \in DOMAIN scenario_metric_score_data
    /\ "S1" \in DOMAIN scenario_metric_score_data["L1"]
    /\ Cardinality(BucketExperiments(scenario_metric_score_data["L1"]["S1"])) = 2
    /\ Cardinality(BucketPlanners(scenario_metric_score_data["L1"]["S1"])) = 2
    /\ Cardinality(BucketMetrics(scenario_metric_score_data["L1"]["S1"])) = 5
    /\ Len(scenario_metric_score_data["L1"]["S1"]) = 20

\* C13: for every metric cell of a per-scenario row of an active
\* experiment, the store holds an entry of that cell if and only if the
\* cell holds a value (a number; neither None nor NaN).
C13_EntryIffCellHoldsValue ==
    \A x \in MetricCells(experiment_file_data, experiment_file_active_index) :
        CellRow(experiment_file_data, x)["num_scenarios"].kind = "nan"
            => (EntriesOfCell(scenario_metric_score_data, experiment_file_data, x) # {}
                   <=> CellRow(experiment_file_data, x)[x.c].kind = "num")

\* The metric names on the x axes of the score figures shown, figure after
\* figure.
ShownMetricNames ==
    Flatten([f \in DOMAIN scenario_score_layout.figures |->
                scenario_score_layout.figures[f].x_range])

\* The metric names with at least one stored score of an enabled planner
\* in the selected bucket.
EnabledMetricNames ==
    {SelectedScoreData[i].metric_statistic_name :
        i \in {j \in DOMAIN SelectedScoreData :
                  SelectedScoreData[j].planner_name \in Enabled}}

SelectedScoreFigures ==
    RenderScenarioMetricScore(experiment_file_data, scenario_metric_score_data,
                              log_name_select.value, scenario_name_select.value,
                              Enabled).figures

\* C15: with a log and a scenario selected and n metric names to show, the
\* score figures shown are the ceil(n / 4) figures of the rendered dict,
\* keyed "0", "1", ... in order; every figure but the last holds 4 names,
\* the last holds the remaining 1 to 4; together they hold the n names, each
\* once; with n = 0 there is no figure.
C15_FourMetricNamesPerFigure ==
    (log_name_select.value # "" /\ scenario_name_select.value # "")
        => /\ scenario_score_layout.figures
                 = [f \in DOMAIN SelectedScoreFigures |-> SelectedScoreFigures[f].val]
           /\ 4 * (Len(SelectedScoreFigures) - 1) < Cardinality(EnabledMetricNames)
           /\ Cardinality(EnabledMetricNames) <= 4 * Len(SelectedScoreFigures)
           /\ \A f \in DOMAIN SelectedScoreFigures :
                 /\ SelectedScoreFigures[f].key = << "0", "1", "2" >>[f]
                 /\ Len(SelectedScoreFigures[f].val.x_range)
                       = IF f < Len(SelectedScoreFigures) THEN 4
                         ELSE Cardinality(EnabledMetricNames)
                                 - 4 * (Len(SelectedScoreFigures) - 1)
                 /\ Len(SelectedScoreFigures[f].val.x_range) \in 1..4
           /\ Len(ShownMetricNames) = Cardinality(EnabledMetricNames)
           /\ Range(ShownMetricNames) = EnabledMetricNames

\* Nine metric names are shown on three figures of 4, 4 and 1 names.
C15_Witness ==
    /\ log_name_select.value # ""
    /\ scenario_name_select.value # ""
    /\ Cardinality(EnabledMetricNames) = 9
    /\ [f \in DOMAIN scenario_score_layout.figures |->
           Len(scenario_score_layout.figures[f].x_range)] = << 4, 4, 1 >>
    /\ [f \in DOMAIN SelectedScoreFigures |-> SelectedScoreFigures[f].key]
           = << "0", "1", "2" >>

\* The positions, in the selected bucket, of the scores of enabled planners
\* whose metric name is on the x axis of the score figure f shown.
ScoresOnFigure(f) ==
    {i \in DOMAIN SelectedScoreData :
        /\ SelectedScoreData[i].planner_name \in Enabled
        /\ SelectedScoreData[i].metric_statistic_name
               \in Range(scenario_score_layout.figures[f].x_range)}

\* The (planner name, experiment index, aggregator file index) of a score.
SeriesOf(score_data) ==
    << score_data.planner_name, score_data.experiment_index,
       score_data.metric_aggregator_file_index >>

\* C16: with a log and a scenario selected, every score figure shown has
\* exactly one series per distinct (planner name, experiment index,
\* aggregator file index) among the scores it plots, and that series holds
\* exactly the scores of that triple.
C16_OneSeriesPerPlannerExperimentFile ==
    (log_name_select.value # "" /\ scenario_name_select.value # "")
        => \A f \in DOMAIN scenario_score_layout.figures :
              /\ Len(scenario_score_layout.figures[f].renderers)
                    = Cardinality({SeriesOf(SelectedScoreData[i]) : i \in ScoresOnFigure(f)})
              /\ \A i \in ScoresOnFigure(f) :
                    \E r \in DOMAIN scenario_score_layout.figures[f].renderers :
                        /\ scenario_score_layout.figures[f].renderers[r].marker
                              = GetScatterSign(
                                    SelectedScoreData[i].metric_aggregator_file_index)
                        /\ \A k \in DOMAIN scenario_score_layout.figures[f].renderers[r].xs :
                              scenario_score_layout.figures[f].renderers[r].planners[k]
                                  = SelectedScoreData[i].planner_name
                        /\ Len(scenario_score_layout.figures[f].renderers[r].xs)
                              = Cardinality({j \in ScoresOnFigure(f) :
                                    SeriesOf(SelectedScoreData[j])
                                        = SeriesOf(SelectedScoreData[i])})

\* The samples of a metric that the last event handed to the renderer and
\* that have at least one value, in stored order: an update renders the
\* stored samples, a checkbox event those of the enabled planners.
PlottedSamples(samples) ==
    SelectSeq(samples, LAMBDA data : /\ Len(data.time_series_values) > 0
                                      /\ (LastEvent = "click_planner_checkbox"
                                             => data.planner_name \in Enabled))

\* C17: after an event that rendered the time series, the time series
\* layout holds exactly one figure per metric that has at least one
\* non-empty sample among those rendered, and none for a metric whose
\* samples are all empty or absent; in a figure every non-empty sample is
\* exactly one line, in stored order, with y the sample's values and
\* x = 0, 1, ..., n-1.
C17_OneFigurePerMetricOneLinePerSample ==
    Ran("time_series_layout") =>
    /\ \A i \in DOMAIN time_series_data :
          Cardinality({f \in DOMAIN time_series_layout.figures :
                          time_series_layout.figures[f].title = time_series_data[i].key})
              = IF Len(PlottedSamples(time_series_data[i].val)) > 0 THEN 1 ELSE 0
    /\ \A f \in DOMAIN time_series_layout.figures :
          \E i \in DOMAIN time_series_data :
              /\ time_series_data[i].key = time_series_layout.figures[f].title
              /\ Len(time_series_layout.figures[f].lines)
                    = Len(PlottedSamples(time_series_data[i].val))
              /\ \A k \in DOMAIN time_series_layout.figures[f].lines :
                    /\ time_series_layout.figures[f].lines[k].y
                          = PlottedSamples(time_series_data[i].val)[k].time_series_values
                    /\ time_series_layout.figures[f].lines[k].planner_name
                          = PlottedSamples(time_series_data[i].val)[k].planner_name
                    /\ time_series_layout.figures[f].lines[k].x
                          = [j \in 1..Len(PlottedSamples(time_series_data[i].val)[k]
                                             .time_series_values) |-> j - 1]

\* A metric with two non-empty samples, one of them of two values, is
\* rendered as one figure of two lines.
C17_Witness ==
    /\ Ran("time_series_layout")
    /\ Len(time_series_layout.figures) = 1
    /\ \E i \in DOMAIN time_series_data :
          /\ time_series_data[i].key = time_series_layout.figures[1].title
          /\ Len(time_series_data[i].val) = 2
    /\ Len(time_series_layout.figures[1].lines) = 2
    /\ \E k \in DOMAIN time_series_layout.figures[1].lines :
          time_series_layout.figures[1].lines[k].x = << 0, 1 >>

\* C18: a layout that shows no figure shows its own placeholder: the
\* scenario score layout the scenario-score placeholder, the time series
\* layout the time-series placeholder.
C18_EmptyFiguresShowOwnPlaceholder ==
    /\ scenario_score_layout.figures = << >>
          => /\ scenario_score_layout.kind = "div"
             /\ scenario_score_layout.div = "default_scenario_score_div"
    /\ time_series_layout.figures = << >>
          => /\ time_series_layout.kind = "div"
             /\ time_series_layout.div = "default_time_series_div"

\* The rows of a metric statistics dataframe for the selected scenario name,
\* the selected type if set, the selected log if set, and one planner.
MatchingRows(frame, planner) ==
    SelectSeq(frame.rows,
              LAMBDA row : /\ row.scenario_name = scenario_name_select.value
                           /\ row.planner_name = planner
                           /\ (scenario_type_select.value = ""
                                  \/ row.scenario_type = scenario_type_select.value)
                           /\ (log_name_select.value = ""
                                  \/ row.log_name = log_name_select.value))

\* The stored samples of a metric from one experiment and one planner.
SamplesOf(index, metric, planner) ==
    {x \in StoredTimeSeries : /\ x.metric = metric
                              /\ x.sample.experiment_index = index
                              /\ x.sample.planner_name = planner}

\* The number of samples the claim gives to planner p of frame f of
\* experiment e (1-based positions).
SamplesDue(e, f, p) ==
    IF /\ (e - 1) \in experiment_file_active_index
       /\ Len(MatchingRows(
                ExperimentFileData(experiment_file_data).metric_statistics_dataframes[e][f],
                p)) > 0
       /\ MatchingRows(
              ExperimentFileData(experiment_file_data).metric_statistics_dataframes[e][f],
              p)[1].series.kind # "none"
    THEN 1 ELSE 0

\* C19: after an aggregation of the time series with a scenario name
\* selected, every (experiment, metric dataframe, planner) has exactly one
\* sample when the experiment is active, its query returns rows and the
\* first time-series cell of the first row is not None, and no sample
\* otherwise; the stored samples all come from active experiments and each
\* sample of a metric list is a different (experiment, planner).
C19_AtMostOneSamplePerExperimentFramePlanner ==
    (Ran("aggregate_time_series_data") /\ scenario_name_select.value # "")
        => /\ \A e \in DOMAIN ExperimentFileData(experiment_file_data)
                                  .metric_statistics_dataframes :
                 \A f \in DOMAIN ExperimentFileData(experiment_file_data)
                                     .metric_statistics_dataframes[e] :
                    \A p \in Range(ExperimentFileData(experiment_file_data)
                                       .metric_statistics_dataframes[e][f].planner_names) :
                       Cardinality(SamplesOf(e - 1,
                                       ExperimentFileData(experiment_file_data)
                                           .metric_statistics_dataframes[e][f]
                                           .metric_statistic_name, p))
                           = SamplesDue(e, f, p)
           /\ \A x \in StoredTimeSeries :
                 x.sample.experiment_index \in experiment_file_active_index
           /\ \A i \in DOMAIN time_series_data :
                 \A k, l \in DOMAIN time_series_data[i].val :
                    (/\ time_series_data[i].val[k].experiment_index
                           = time_series_data[i].val[l].experiment_index
                     /\ time_series_data[i].val[k].planner_name
                           = time_series_data[i].val[l].planner_name) => k = l

\* With experiment 0 active and experiment 1 not, one planner of a dataframe
\* gets its sample from two matching rows, and an inactive experiment's
\* planner with matching rows gets none.
C19_Witness ==
    /\ Ran("aggregate_time_series_data")
    /\ scenario_name_select.value # ""
    /\ experiment_file_active_index = {0}
    /\ \E p \in {"P1", "P2"} :
          /\ Len(MatchingRows(ExperimentFileData(experiment_file_data)
                                  .metric_statistics_dataframes[1][1], p)) = 2
          /\ Cardinality(SamplesOf(0, "speed", p)) = 1
    /\ \E p \in {"P1", "P2"} :
          /\ Len(MatchingRows(ExperimentFileData(experiment_file_data)
                                  .metric_statistics_dataframes[2][1], p)) > 0
          /\ SamplesOf(1, "speed", p) = {}

\* C20: a deferred simulation swap that runs right after a planner-checkbox
\* event and leaves no callback pending does not change the simulation
\* layout the checkbox event wrote: the layout still reflects the latest
\* event.
C20_DeferredSwapKeepsCheckboxLayout ==
    [][(/\ LastEvent = "click_planner_checkbox"
        /\ LastEvent' = "next_tick"
        /\ next_tick_callbacks' = 0)
          => simulation_tile_layout' = simulation_tile_layout]_vars

\* The simulation keys of the currently selected scenario type, log name
\* and scenario name in the active experiments.
CurrentSimulationKeys ==
    {key \in Range(ExperimentFileData(experiment_file_data).simulation_scenario_keys) :
        /\ key.scenario_type = scenario_type_select.value
        /\ key.log_name = log_name_select.value
        /\ key.scenario_name = scenario_name_select.value
        /\ key.nuboard_file_index \in experiment_file_active_index}

\* C21: after a planner-checkbox event every tile in the simulation layout
\* is a tile of a simulation key of the current selection (scenario type,
\* log name, scenario name, active experiments); when no key matches the
\* current selection the layout is the simulation placeholder.
C21_CheckboxShowsTilesOfCurrentSelection ==
    LastEvent = "click_planner_checkbox"
        => /\ \A f \in DOMAIN simulation_tile_layout.figures :
                 simulation_tile_layout.figures[f] \in CurrentSimulationKeys
           /\ CurrentSimulationKeys = {}
                 => /\ simulation_tile_layout.kind = "div"
                    /\ simulation_tile_layout.div = "default_simulation_div"

\* C22: an event that renders the score figures without rebuilding the
\* store (a selection change or a planner-checkbox event) leaves the
\* metric-score store as it was: the same buckets with the same contents.
C22_RenderLeavesStoreUnchanged ==
    [][(SelectionEvent' \/ LastEvent' = "click_planner_checkbox")
          => scenario_metric_score_data' = scenario_metric_score_data]_vars

=============================================================================
